---- MODULE Spec2Model ----
(***************************************************************************)
(* Model of parser.Parse and Report.Failures of go-junit-report            *)
(* (src/parser/parser.go).                                                 *)
(*                                                                         *)
(* Parse reads lines from a reader and keeps three pieces of state: the    *)
(* report being built, the accumulation buffer `suites` (suite name ->     *)
(* test name -> *Test) and `cur`, the test the last status line resolved.  *)
(* Tests are heap objects referred to by pointer, so the model keeps a     *)
(* heap (a sequence of Test records, a pointer is an index, 0 is nil).     *)
(* Go map iteration order is unspecified: every `range` over a map is a    *)
(* nondeterministic choice of order.                                       *)
(*                                                                         *)
(* A line is what one call of ReadLine returns.                             *)
(*                                                                         *)
(* time.Duration values are int64 nanoseconds.                             *)
(***************************************************************************)
EXTENDS Integers, Sequences, FiniteSets, TLC

\* Bound on the number of lines one stream holds.
MaxLines == 5

(***************************************************************************)
(* Result enum (iota constants).                                           *)
(***************************************************************************)
PASS == 0
FAIL == 1
SKIP == 2

\* The nil *Test.
NilTest == 0

(***************************************************************************)
(* Names.  A test name is the sequence of its '/'-separated segments:      *)
(* "TestFoo" is <<"TestFoo">>, "TestFoo/TestBar" is <<"TestFoo","TestBar">>,*)
(* "" is <<"">>, "a/" is <<"a","">>, "/" is <<"","">>.                     *)
(***************************************************************************)
RECURSIVE stripTrailingSlashes(_)
stripTrailingSlashes(n) ==
    IF Len(n) > 1 /\ n[Len(n)] = ""
    THEN stripTrailingSlashes(SubSeq(n, 1, Len(n) - 1))
    ELSE n

\* path.Base: "" -> ".", trailing slashes stripped, last element kept,
\* a path of slashes only -> "/".
pathBase(n) ==
    IF n = <<"">> THEN <<".">>
    ELSE LET s == stripTrailingSlashes(n) IN
         IF s = <<"">> THEN <<"", "">>
         ELSE <<s[Len(s)]>>

(***************************************************************************)
(* 64-bit integers.  An int64 or uint64 value is kept as its residue       *)
(* modulo 2^64, written in base 10^9: <<a, b, c>> is a*10^18 + b*10^9 + c  *)
(* with b, c < 10^9.  A residue of 2^63 or more is a negative int64.       *)
(* time.Duration is an int64 count of nanoseconds; int is 64 bits wide.    *)
(***************************************************************************)
Giga == 1000000000

Zero64 == <<0, 0, 0>>
Two63  == <<9, 223372036, 854775808>>
Two64  == <<18, 446744073, 709551616>>

Less64(x, y) ==
    \/ x[1] < y[1]
    \/ x[1] = y[1] /\ x[2] < y[2]
    \/ x[1] = y[1] /\ x[2] = y[2] /\ x[3] < y[3]

\* x + y, carries taken, not reduced.
Plus64(x, y) ==
    LET c == x[3] + y[3]
        b == x[2] + y[2] + c \div Giga
    IN <<x[1] + y[1] + b \div Giga, b % Giga, c % Giga>>

\* x - y for y <= x.
Minus64(x, y) ==
    LET c == x[3] - y[3]
        b == x[2] - y[2] - (IF c < 0 THEN 1 ELSE 0)
    IN <<x[1] - y[1] - (IF b < 0 THEN 1 ELSE 0),
         IF b < 0 THEN b + Giga ELSE b,
         IF c < 0 THEN c + Giga ELSE c>>

\* The + of Go on int64: the sum wraps around.
Add64(x, y) ==
    LET s == Plus64(x, y) IN
    IF Less64(s, Two64) THEN s ELSE Minus64(s, Two64)

Neg64(x) == IF x = Zero64 THEN x ELSE Minus64(Two64, x)

IsNeg64(x) == ~Less64(x, Two63)

\* x / d for x >= 0 and d a divisor of 10^9.
UDiv64(x, d) ==
    <<0, x[1] * (Giga \div d) + x[2] \div d,
         (x[2] % d) * (Giga \div d) + x[3] \div d>>

\* The / of Go on int64 (the quotient is truncated toward zero), for d a
\* divisor of 10^9.
Div64(x, d) ==
    IF IsNeg64(x) THEN Neg64(UDiv64(Neg64(x), d)) ELSE UDiv64(x, d)

\* time.Millisecond, in nanoseconds.
Millisecond == 1000000

(***************************************************************************)
(* Unbounded naturals as sequences of limbs in base 2^15, lowest limb      *)
(* first, no leading zero limb; <<>> is 0.  float64 values as [m, e], the  *)
(* value m * 2^e, m of at most 53 bits (or 2^53).                          *)
(***************************************************************************)
Base == 32768

Limb(a, i) == IF i \in DOMAIN a THEN a[i] ELSE 0

Rest(a) == IF a = <<>> THEN a ELSE Tail(a)

LNorm(a) ==
    LET nz == { i \in DOMAIN a : a[i] # 0 } IN
    IF nz = {} THEN <<>>
    ELSE SubSeq(a, 1, CHOOSE i \in nz : \A k \in nz : k <= i)

\* The limbs of a number below 2^31, and back.
LOf(n) == LNorm(<<n % Base, (n \div Base) % Base, n \div (Base * Base)>>)

LVal(a) == Limb(a, 1) + Limb(a, 2) * Base + Limb(a, 3) * Base * Base

LLess(a, b) ==
    \E i \in 1 .. (IF Len(a) > Len(b) THEN Len(a) ELSE Len(b)) :
        /\ Limb(a, i) < Limb(b, i)
        /\ \A k \in i + 1 .. (IF Len(a) > Len(b) THEN Len(a) ELSE Len(b)) :
              Limb(a, k) = Limb(b, k)

RECURSIVE LAddC(_, _, _)
LAddC(a, b, c) ==
    IF a = <<>> /\ b = <<>> THEN (IF c = 0 THEN <<>> ELSE <<c>>)
    ELSE <<(Limb(a, 1) + Limb(b, 1) + c) % Base>>
            \o LAddC(Rest(a), Rest(b), (Limb(a, 1) + Limb(b, 1) + c) \div Base)

LAdd(a, b) == LAddC(a, b, 0)

RECURSIVE LSubC(_, _, _)
LSubC(a, b, c) ==
    IF a = <<>> THEN <<>>
    ELSE <<(Base + a[1] - Limb(b, 1) - c) % Base>>
            \o LSubC(Tail(a), Rest(b), IF a[1] - Limb(b, 1) - c < 0 THEN 1 ELSE 0)

\* a - b for b <= a.
LSub(a, b) == LNorm(LSubC(a, b, 0))

RECURSIVE LMulSmallC(_, _, _)
LMulSmallC(a, d, c) ==
    IF a = <<>> THEN (IF c = 0 THEN <<>> ELSE <<c>>)
    ELSE <<(a[1] * d + c) % Base>> \o LMulSmallC(Tail(a), d, (a[1] * d + c) \div Base)

\* a * d for d < 2^15.
LMulSmall(a, d) == IF d = 0 THEN <<>> ELSE LMulSmallC(a, d, 0)

LShlLimbs(a, n) == IF a = <<>> THEN a ELSE [i \in 1 .. n |-> 0] \o a

RECURSIVE LMul(_, _)
LMul(a, b) ==
    IF a = <<>> \/ b = <<>> THEN <<>>
    ELSE LAdd(LMulSmall(a, b[1]), LShlLimbs(LMul(a, Tail(b)), 1))

RECURSIVE QDigit(_, _, _, _)
\* The largest x in lo .. hi with x * b <= r.
QDigit(r, b, lo, hi) ==
    IF lo = hi THEN lo
    ELSE IF LLess(r, LMulSmall(b, (lo + hi + 1) \div 2))
    THEN QDigit(r, b, lo, (lo + hi + 1) \div 2 - 1)
    ELSE QDigit(r, b, (lo + hi + 1) \div 2, hi)

RECURSIVE LDiv(_, _)
\* Quotient and remainder of a by b, b > 0, one limb of a at a time (the
\* inner quotient first).
LDiv(a, b) ==
    IF a = <<>> THEN [q |-> <<>>, r |-> <<>>]
    ELSE LET d  == LDiv(Tail(a), b)
             r2 == LNorm(<<a[1]>> \o d.r)
             qd == QDigit(r2, b, 0, Base - 1)
         IN IF Len(d.q) >= 0
            THEN [q |-> LNorm(<<qd>> \o d.q), r |-> LSub(r2, LMulSmall(b, qd))]
            ELSE d

\* The number of bits of a.
BitLen(a) ==
    IF a = <<>> THEN 0
    ELSE 15 * (Len(a) - 1)
            + CHOOSE n \in 1 .. 15 : 2 ^ (n - 1) <= a[Len(a)] /\ a[Len(a)] < 2 ^ n

\* a * 2^n and a / 2^n.
LShl(a, n) == LShlLimbs(LMulSmall(a, 2 ^ (n % 15)), n \div 15)

LShr(a, n) ==
    LET h == SubSeq(a, n \div 15 + 1, Len(a)) IN
    LNorm([i \in 1 .. Len(h) |->
              h[i] \div 2 ^ (n % 15)
                 + (Limb(h, i + 1) % 2 ^ (n % 15)) * 2 ^ (15 - (n % 15))])

\* The float64 nearest to a (to a and a little more when sticky), ties to
\* the even mantissa; 53 bits of mantissa.
RoundEven(a, sticky) ==
    IF BitLen(a) <= 53 THEN [m |-> a, e |-> 0]
    ELSE LET s    == BitLen(a) - 53
             q    == LShr(a, s)
             rem  == LSub(a, LShl(q, s))
             half == LShl(<<1>>, s - 1)
             up   == /\ ~LLess(rem, half)
                     /\ \/ LLess(half, rem)
                        \/ sticky
                        \/ q[1] % 2 = 1
         IN [m |-> IF up THEN LAdd(q, <<1>>) ELSE q, e |-> s]

\* x * y on float64.
FMul(x, y) ==
    LET r == RoundEven(LMul(x.m, y.m), FALSE) IN
    [m |-> r.m, e |-> r.e + x.e + y.e]

\* x / y on float64, x and y > 0.
FDiv(x, y) ==
    LET n == BitLen(y.m) + 56
        d == LDiv(LShl(x.m, n), y.m)
        r == RoundEven(d.q, d.r # <<>>)
    IN [m |-> r.m, e |-> r.e + x.e - y.e - n]

\* uint64(x) for a float64 x >= 0: the fraction is dropped.
FTrunc(x) ==
    IF x.e >= 0 THEN LShl(x.m, x.e) ELSE LShr(x.m, 0 - x.e)

(***************************************************************************)
(* Seconds literals: the text \d+\.\d+ as [whole, frac], the digits before *)
(* and after the point.  "0.01" is [whole |-> <<0>>, frac |-> <<0, 1>>];   *)
(* the empty string is [whole |-> <<>>, frac |-> <<>>].                    *)
(***************************************************************************)
Lit(w, f) == [whole |-> w, frac |-> f]
EmptyLit  == [whole |-> <<>>, frac |-> <<>>]

RECURSIVE Pow10(_)
Pow10(k) == IF k <= 0 THEN 1 ELSE 10 * Pow10(k - 1)

RECURSIVE digitsValue(_)
\* The number a sequence of at most nine digits writes.
digitsValue(ds) ==
    IF ds = <<>> THEN 0
    ELSE 10 * digitsValue(SubSeq(ds, 1, Len(ds) - 1)) + ds[Len(ds)]

\* The digits without their leading zeros.
stripZeros(ds) ==
    LET nz == { i \in DOMAIN ds : ds[i] # 0 } IN
    IF nz = {} THEN <<>>
    ELSE SubSeq(ds, CHOOSE i \in nz : \A k \in nz : i <= k, Len(ds))

\* time.leadingInt and the test v > 1<<63/unit of time.ParseDuration, unit
\* the second: the seconds before the point as nanoseconds, or <<>> when
\* they exceed 9223372036.
leadingInt(ds) ==
    LET w == stripZeros(ds)
        v == <<IF Len(w) = 10 THEN w[1] ELSE 0,
               digitsValue(IF Len(w) = 10 THEN Tail(w) ELSE w),
               0>>
    IN IF Len(w) > 10 THEN <<>>
       ELSE IF Less64(<<9, 223372036, 0>>, v) THEN <<>>
       ELSE <<v>>

RECURSIVE Pow10L(_)
Pow10L(n) ==
    IF n <= 9 THEN LOf(Pow10(n))
    ELSE LMul(Pow10L(n \div 2), Pow10L(n - n \div 2))

RECURSIVE digitsL(_)
\* The number a sequence of digits writes.
digitsL(ds) ==
    IF Len(ds) <= 9 THEN LOf(digitsValue(ds))
    ELSE LAdd(LMul(digitsL(SubSeq(ds, 1, Len(ds) \div 2)),
                   Pow10L(Len(ds) - Len(ds) \div 2)),
              digitsL(SubSeq(ds, Len(ds) \div 2 + 1, Len(ds))))

\* time.leadingFraction: x the digits taken as a number, k their count (scale
\* is 10^k).  A digit is taken while x*10 + digit stays at or below 1<<63,
\* all digits from the first refused on are skipped; x never decreases, so
\* the digits taken are the prefixes that write at most 1<<63.
leadingFraction(ds) ==
    LET k == Cardinality({ i \in DOMAIN ds :
                 ~LLess(LShl(<<1>>, 63), digitsL(stripZeros(SubSeq(ds, 1, i)))) })
    IN [x |-> digitsL(stripZeros(SubSeq(ds, 1, k))), k |-> k]

RECURSIVE scaleOf(_)
\* scale after k rounds of scale *= 10 on float64, from 1: exactly 10^k up
\* to 10^22, each further product rounded.
scaleOf(k) ==
    IF k <= 22 THEN RoundEven(Pow10L(k), FALSE)
    ELSE FMul(scaleOf(k - 1), [m |-> LOf(10), e |-> 0])

\* uint64(float64(f) * (float64(unit) / scale)) of time.ParseDuration, unit
\* the second: the nanoseconds of the fraction.  With at most nine digits
\* the quotient 10^(9-k) and the product are whole numbers below 10^9 and
\* the float64 arithmetic is exact.  From 28 digits taken on the product is
\* below 1 (f <= 1<<63 < 10^19), also when scale has become +Inf.
fracNanos(f) ==
    IF Len(f) <= 9 THEN digitsValue(f) * Pow10(9 - Len(f))
    ELSE LET lf == leadingFraction(f) IN
         IF lf.x = <<>> \/ lf.k >= 28 THEN 0
         ELSE LVal(FTrunc(FMul(RoundEven(lf.x, FALSE),
                               FDiv([m |-> LOf(Giga), e |-> 0], scaleOf(lf.k)))))

\* time.ParseDuration(t + "s"), the error dropped: the nanoseconds, or 0 when
\* the duration does not fit an int64.
ParseDuration(t) ==
    LET v == leadingInt(t.whole) IN
    IF v = <<>> THEN Zero64
    ELSE LET d == Plus64(v[1], <<0, 0, fracNanos(t.frac)>>) IN
         IF Less64(d, Two63) THEN d ELSE Zero64

\* parseSeconds: "" -> 0, otherwise time.ParseDuration(t + "s").
parseSeconds(t) ==
    IF t = EmptyLit THEN Zero64
    ELSE ParseDuration(t)

(***************************************************************************)
(* Lines.  A line is a record whose shape says how its text is laid out:   *)
(*   result  kw \t pkg \t (<secs>s | (cached) | [build failed])            *)
(*           [\t coverage: <cov>% of statements]                           *)
(*   status  <indent>--- <kw>: <name> (<secs><unit>)                       *)
(*   json    {"Suite":..,"Test":..,"Msg":..}  (a field may be absent or    *)
(*           a number instead of a string)                                 *)
(*   text    any other text                                                *)
(* A JSON string value may itself hold the text of a status line.          *)
(***************************************************************************)
StatusText(kw, name, secs, unit) ==
    [kw |-> kw, name |-> name, secs |-> secs, unit |-> unit]

PlainMsg(s)   == [kind |-> "plain", s |-> s]
StatusMsg(st) == [kind |-> "status", st |-> st]

JStr(v)  == [kind |-> "str", v |-> v]
JNum     == [kind |-> "num"]
JAbsent  == [kind |-> "absent"]

ResultLine(kw, pkg, tail, secs, cov) ==
    [shape |-> "result", kw |-> kw, pkg |-> pkg, tail |-> tail,
     secs |-> secs, cov |-> cov]
StatusLine(indent, st) == [shape |-> "status", indent |-> indent, st |-> st]
JsonLine(su, te, msg)  == [shape |-> "json", Suite |-> su, Test |-> te, Msg |-> msg]
TextLine(s)            == [shape |-> "text", s |-> s]

TestFoo == <<"TestFoo">>
TestBar == <<"TestBar">>
SubTest == <<"TestFoo", "TestBar">>
\* "TestFoo/" and the empty name.
FooSlash == <<"TestFoo", "">>
NoName   == <<"">>

ResultLines ==
    { ResultLine("ok",   "pkgA", "secs",   Lit(<<0>>, <<0, 1, 0>>), ""),
      ResultLine("FAIL", "pkgA", "failed", EmptyLit,            ""),
      ResultLine("ok",   "pkgC", "secs",   Lit(<<0>>, <<5>>),       "87.5"),
      ResultLine("ok",   "pkgC", "cached", EmptyLit,            "") }

\* Lines of the status layout.  The last has no name between ": " and " (",
\* which the pattern's (.+) refuses.
StatusLines ==
    { StatusLine("", StatusText("PASS", TestFoo, Lit(<<0>>, <<0, 1>>), "s")),
      StatusLine("", StatusText("FAIL", TestFoo, Lit(<<0>>, <<0, 2>>), "s")),
      StatusLine("", StatusText("FAIL", TestBar,
                                Lit(<<0>>, <<0, 2, 0, 0, 0, 0, 0, 0, 0, 5>>), "s")),
      StatusLine("", StatusText("SKIP", TestFoo, Lit(<<0>>, <<0, 1, 0, 0, 0, 0, 5>>), "s")),
      StatusLine("", StatusText("PASS", TestFoo,
                                Lit(<<9, 2, 2, 3, 3, 7, 2, 0, 3, 7>>, <<0>>), "s")),
      StatusLine("    ", StatusText("FAIL", SubTest, Lit(<<0>>, <<0, 2>>), " seconds")),
      StatusLine("", StatusText("SKIP", FooSlash, Lit(<<0>>, <<0, 3>>), "s")),
      StatusLine("", StatusText("FAIL", NoName, Lit(<<0>>, <<0, 2>>), "s")) }

JsonLines ==
    { JsonLine(JStr("pkgA"), JStr(TestFoo), JStr(PlainMsg("hello\n"))),
      JsonLine(JStr("pkgA"), JStr(TestFoo), JStr(PlainMsg("m2"))),
      JsonLine(JStr("pkgA"), JStr(TestBar), JAbsent),
      JsonLine(JStr("pkgA"), JAbsent, JStr(PlainMsg("hello\n"))),
      JsonLine(JStr("pkgB"), JStr(TestFoo), JStr(PlainMsg("hello\n"))),
      JsonLine(JStr("pkgA"), JStr(TestFoo),
               JStr(StatusMsg(StatusText("FAIL", TestFoo,
                                        Lit(<<9, 2, 2, 3, 3, 7, 2, 0, 3, 7>>, <<0>>), "s")))),
      JsonLine(JStr("pkgA"), JNum, JAbsent) }

TextLines ==
    { TextLine("assertion failed at line 5"),
      TextLine("FAIL") }

Lines == ResultLines \cup StatusLines \cup JsonLines \cup TextLines

(***************************************************************************)
(* The patterns.  Each gives the submatches, or NoMatch.                   *)
(***************************************************************************)
NoMatch == <<>>

\* regexResult: anchored, (ok|FAIL) pkg (secs s|(cached)|[word failed])
\* and an optional coverage clause; 6 submatches.
regexResult(line) ==
    IF /\ line.shape = "result"
       /\ line.kw \in {"ok", "FAIL"}
       /\ line.tail \in {"secs", "cached", "failed"}
    THEN <<line, line.kw, line.pkg, line.secs, line.tail, line.cov>>
    ELSE NoMatch

\* The status text a line carries anywhere in it, if any.
statusTextOf(line) ==
    CASE line.shape = "status" -> <<line.st>>
      [] line.shape = "json" /\ line.Msg.kind = "str" /\ line.Msg.v.kind = "status"
            -> <<line.Msg.v.st>>
      [] OTHER -> <<>>

\* regexStatus: not anchored, --- (PASS|FAIL|SKIP): (.+) \((\d+\.\d+)( seconds|s)\);
\* 4 submatches.  (.+) takes one character at least.
regexStatus(line) ==
    LET c == statusTextOf(line) IN
    IF /\ c # <<>>
       /\ c[1].kw \in {"PASS", "FAIL", "SKIP"}
       /\ c[1].name # <<"">>
       /\ c[1].unit \in {"s", " seconds"}
    THEN <<c[1], c[1].kw, c[1].name, c[1].secs>>
    ELSE NoMatch

\* json.Unmarshal into Info: an object whose Suite, Test and Msg are strings
\* or absent decodes; absent fields stay "".
jsonOk(line) ==
    /\ line.shape = "json"
    /\ line.Suite.kind \in {"str", "absent"}
    /\ line.Test.kind \in {"str", "absent"}
    /\ line.Msg.kind \in {"str", "absent"}

jsonInfo(line) ==
    [Suite |-> IF line.Suite.kind = "str" THEN line.Suite.v ELSE "",
     Test  |-> IF line.Test.kind = "str" THEN line.Test.v ELSE <<"">>,
     Msg   |-> IF line.Msg.kind = "str" THEN line.Msg.v ELSE PlainMsg("")]

\* regexSummary: ^(PASS|FAIL|SKIP)$.  Compiled, and used by no branch.
regexSummary(line) ==
    IF line.shape = "text" /\ line.s \in {"PASS", "FAIL", "SKIP"}
    THEN <<line, line.s>>
    ELSE NoMatch

\* A chain that tries the structured decode before the status pattern.
RuleJsonFirst(line) ==
    IF Len(regexResult(line)) = 6 THEN "result"
    ELSE IF jsonOk(line) THEN "record"
    ELSE IF Len(regexStatus(line)) = 4 THEN "status"
    ELSE "fallback"

\* The if / else-if chain of the loop body: which branch handles the line.
Rule(line) ==
    IF Len(regexResult(line)) = 6 THEN "result"
    ELSE IF Len(regexStatus(line)) = 4 THEN "status"
    ELSE IF jsonOk(line) THEN "record"
    ELSE "fallback"

(***************************************************************************)
(* State of one call of Parse, and of the caller after it returns.         *)
(***************************************************************************)
VARIABLES
    pc,         \* "reading" inside the loop, "done" once Parse has returned
    heap,       \* the Test objects allocated so far; a *Test is an index
    suites,     \* map[string]map[string]*Test
    cur,        \* *Test, NilTest when nil
    report,     \* report.Packages
    err,        \* what the last ReadLine returned as its error
    ret,        \* what Parse returned: [report, err]
    failures,   \* what Report.Failures() returned to the caller, -1 before the call
    nread,      \* number of lines read so far
    \* History of the input, kept for stating the properties:
    resultFor,  \* the package-result lines read
    openRecs,   \* Suite values of the records read since the last package-result line
    closedRecs, \* Suite values that had a record read before some later package-result line
    origin,     \* origin[id]: Suite value of the record that created heap[id]
    resolved,   \* tests a status line has resolved
    scen,       \* progress of the stream through the shape records, status, text, result
    \* A second call of Parse on the same stream (used by SpecTwin only):
    heap2, suites2, cur2, report2

vars == <<pc, heap, suites, cur, report, err, ret, failures, nread,
          resultFor, openRecs, closedRecs, origin, resolved, scen,
          heap2, suites2, cur2, report2>>

twin == <<heap2, suites2, cur2, report2>>

\* The parser's own variables as one value.
St == [heap |-> heap, suites |-> suites, cur |-> cur, report |-> report]
St2 == [heap |-> heap2, suites |-> suites2, cur |-> cur2, report |-> report2]

EmptyMap == [x \in {} |-> x]

\* All orders in which a range over a map with key set S can yield its keys.
Perms(S) ==
    { f \in [1 .. Cardinality(S) -> S] : \A x \in S : \E i \in DOMAIN f : f[i] = x }

\* A new Test whose Result does not start as PASS.
newTestSkip(info) ==
    [Name |-> info.Test, Duration |-> Zero64, Result |-> 2,
     Output |-> <<info.Msg>>, Failure |-> <<>>, SkipMsg |-> <<>>]

\* &Test{Name: info.Test} followed by the append of info.Msg to its Output.
newTest(info) ==
    [Name |-> info.Test, Duration |-> Zero64, Result |-> PASS,
     Output |-> <<info.Msg>>, Failure |-> <<>>, SkipMsg |-> <<>>]

RECURSIVE suiteTime(_, _)
\* suiteTime += testinfo.Duration over the tests in the order ranged.
suiteTime(ids, h) ==
    IF ids = <<>> THEN Zero64
    ELSE Add64(h[Head(ids)].Duration, suiteTime(Tail(ids), h))

\* A Package that takes its duration from the package-result line.
MkPackageLineDuration(matches, suite, ids, h) ==
    [Name        |-> suite,
     Duration    |-> parseSeconds(matches[4]),
     Time        |-> Div64(parseSeconds(matches[4]), 1000000),
     Tests       |-> ids,
     Benchmarks  |-> <<>>,
     CoveragePct |-> ""]

\* A Package named by the package path of the package-result line.
MkPackageLineName(matches, suite, ids, h) ==
    [Name        |-> matches[3],
     Duration    |-> suiteTime(ids, h),
     Time        |-> Div64(suiteTime(ids, h), 1000000),
     Tests       |-> ids,
     Benchmarks  |-> <<>>,
     CoveragePct |-> ""]

\* A Package that takes its coverage from the package-result line.
MkPackageLineCoverage(matches, suite, ids, h) ==
    [Name        |-> suite,
     Duration    |-> suiteTime(ids, h),
     Time        |-> Div64(suiteTime(ids, h), 1000000),
     Tests       |-> ids,
     Benchmarks  |-> <<>>,
     CoveragePct |-> matches[6]]

\* The Package literal appended for one suite; matches are the submatches
\* of the package-result line (in scope, not used).
MkPackage(matches, suite, ids, h) ==
    [Name        |-> suite,
     Duration    |-> suiteTime(ids, h),
     Time        |-> Div64(suiteTime(ids, h), Millisecond),
     Tests       |-> ids,
     Benchmarks  |-> <<>>,
     CoveragePct |-> ""]

\* The packages one package-result line appends: suites in the order so,
\* the tests of suite s in the order to[s].
flushed(matches, st, so, to) ==
    [i \in 1 .. Len(so) |->
        MkPackage(matches, so[i],
                  [j \in 1 .. Len(to[so[i]]) |-> st.suites[so[i]][to[so[i]][j]]],
                  st.heap)]

\* New packages put in front of the old ones.
prependPackages(packages, new) == new \o packages

\* report.Packages after the flush.
appendPackages(packages, new) == packages \o new

\* A flush of the one suite the package-result line names.
FlushNamed(matches, st) ==
    LET named == DOMAIN st.suites \cap {matches[3]} IN
    { [st EXCEPT !.report = appendPackages(st.report, flushed(matches, st, so, to)),
                 !.suites = [s \in DOMAIN st.suites \ named |-> st.suites[s]]] :
        so \in Perms(named),
        to \in { f \in [named -> UNION { Perms(DOMAIN st.suites[s]) : s \in named }] :
                    \A s \in named : f[s] \in Perms(DOMAIN st.suites[s]) } }

\* Package-result branch: every suite of the buffer becomes a Package, then
\* the buffer is replaced by an empty map.
Flush(matches, st) ==
    { [st EXCEPT !.report = appendPackages(st.report, flushed(matches, st, so, to)),
                 !.suites = EmptyMap] :
        so \in Perms(DOMAIN st.suites),
        to \in { f \in [DOMAIN st.suites ->
                            UNION { Perms(DOMAIN st.suites[s]) : s \in DOMAIN st.suites }] :
                    \A s \in DOMAIN st.suites : f[s] \in Perms(DOMAIN st.suites[s]) } }

\* The tests the scan over suites can stop at for a reduced name: one per
\* suite holding that name, the first suite ranged decides.
found(st, curTest) ==
    { st.suites[s][t] : s \in { x \in DOMAIN st.suites : curTest \in DOMAIN st.suites[x] },
                        t \in {curTest} }

\* A status branch that looks the full name up, not its last element.
StatusFullName(matches, st) ==
    IF found(st, matches[3]) = {}
    THEN { [st EXCEPT !.cur = 0] }
    ELSE { [st EXCEPT !.heap[id].Result = IF matches[2] = "PASS" THEN 0
                                          ELSE IF matches[2] = "SKIP" THEN 2 ELSE 1,
                      !.heap[id].Duration = parseSeconds(matches[4]),
                      !.cur = id] : id \in found(st, matches[3]) }

statusResult(kw) ==
    IF kw = "PASS" THEN PASS ELSE IF kw = "SKIP" THEN SKIP ELSE FAIL

\* A resolution that forgets to make the test current.
resolveNoCur(matches, st, id) ==
    [st EXCEPT !.heap[id].Result = IF matches[2] = "PASS" THEN 0
                                   ELSE IF matches[2] = "SKIP" THEN 2 ELSE 1,
               !.heap[id].Duration = parseSeconds(matches[4])]

\* testdata.Result, testdata.Duration and cur once a test was found.
resolve(matches, st, id) ==
    [st EXCEPT !.heap[id].Result = statusResult(matches[2]),
               !.heap[id].Duration = parseSeconds(matches[4]),
               !.cur = id]

\* A status branch that creates the test it does not find.
StatusCreates(matches, st) ==
    LET curTest == pathBase(matches[3]) IN
    IF found(st, curTest) = {}
    THEN { [st EXCEPT
              !.heap = Append(@, [Name |-> curTest, Duration |-> parseSeconds(matches[4]),
                                  Result |-> 0, Output |-> <<>>,
                                  Failure |-> <<>>, SkipMsg |-> <<>>]),
              !.suites = [s \in DOMAIN st.suites \cup {""} |->
                            IF s = "" THEN (curTest :> (Len(st.heap) + 1))
                            ELSE st.suites[s]],
              !.cur = Len(st.heap) + 1] }
    ELSE { resolve(matches, st, id) : id \in found(st, curTest) }

\* Status branch.
Status(matches, st) ==
    LET curTest == pathBase(matches[3]) IN
    IF found(st, curTest) = {}
    THEN { [st EXCEPT !.cur = NilTest] }
    ELSE { resolve(matches, st, id) : id \in found(st, curTest) }

\* A structured-record branch that makes the test it writes to current.
RecordSetsCur(info, st) ==
    IF info.Suite \in DOMAIN st.suites /\ info.Test \in DOMAIN st.suites[info.Suite]
    THEN LET id == st.suites[info.Suite][info.Test] IN
         [st EXCEPT !.heap[id].Output = Append(@, info.Msg), !.cur = id]
    ELSE LET id == Len(st.heap) + 1
             old == IF info.Suite \in DOMAIN st.suites
                    THEN st.suites[info.Suite] ELSE EmptyMap
             m   == [t \in DOMAIN old \cup {info.Test} |->
                        IF t = info.Test THEN id ELSE old[t]]
         IN [st EXCEPT !.heap = Append(@, newTest(info)),
                       !.suites = [s \in DOMAIN st.suites \cup {info.Suite} |->
                                      IF s = info.Suite THEN m ELSE st.suites[s]],
                       !.cur = id]

\* A record branch that puts Msg at the front of the output.
RecordPrepends(info, st) ==
    IF info.Suite \in DOMAIN st.suites /\ info.Test \in DOMAIN st.suites[info.Suite]
    THEN LET id == st.suites[info.Suite][info.Test] IN
         [st EXCEPT !.heap[id].Output = <<info.Msg>> \o @]
    ELSE LET id == Len(st.heap) + 1
             old == IF info.Suite \in DOMAIN st.suites
                    THEN st.suites[info.Suite] ELSE EmptyMap
             m   == [t \in DOMAIN old \cup {info.Test} |->
                        IF t = info.Test THEN id ELSE old[t]]
         IN [st EXCEPT !.heap = Append(@, newTest(info)),
                       !.suites = [s \in DOMAIN st.suites \cup {info.Suite} |->
                                      IF s = info.Suite THEN m ELSE st.suites[s]]]

\* Structured-record branch.
Record(info, st) ==
    IF info.Suite \in DOMAIN st.suites /\ info.Test \in DOMAIN st.suites[info.Suite]
    THEN LET id == st.suites[info.Suite][info.Test] IN
         [st EXCEPT !.heap[id].Output = Append(@, info.Msg)]
    ELSE LET id == Len(st.heap) + 1
             old == IF info.Suite \in DOMAIN st.suites
                    THEN st.suites[info.Suite] ELSE EmptyMap
             m   == [t \in DOMAIN old \cup {info.Test} |->
                        IF t = info.Test THEN id ELSE old[t]]
         IN [st EXCEPT !.heap = Append(@, newTest(info)),
                       !.suites = [s \in DOMAIN st.suites \cup {info.Suite} |->
                                      IF s = info.Suite THEN m ELSE st.suites[s]]]

\* A last branch that also keeps the line as output of a passed test.
FallbackKeepsOutput(line, st) ==
    IF st.cur = 0 THEN st
    ELSE IF st.heap[st.cur].Result = 1
         THEN [st EXCEPT !.heap[st.cur].Failure = Append(@, line)]
    ELSE IF st.heap[st.cur].Result = 2
         THEN [st EXCEPT !.heap[st.cur].SkipMsg = Append(@, line)]
    ELSE [st EXCEPT !.heap[st.cur].Output = Append(@, PlainMsg("raw"))]

\* A last branch with the two lists exchanged.
FallbackSwapped(line, st) ==
    IF st.cur = 0 THEN st
    ELSE IF st.heap[st.cur].Result = 1
         THEN [st EXCEPT !.heap[st.cur].SkipMsg = Append(@, line)]
    ELSE IF st.heap[st.cur].Result = 2
         THEN [st EXCEPT !.heap[st.cur].Failure = Append(@, line)]
    ELSE st

\* Last branch: the raw line goes to the current test's Failure or SkipMsg.
Fallback(line, st) ==
    IF st.cur = NilTest THEN st
    ELSE IF st.heap[st.cur].Result = FAIL
         THEN [st EXCEPT !.heap[st.cur].Failure = Append(@, line)]
    ELSE IF st.heap[st.cur].Result = SKIP
         THEN [st EXCEPT !.heap[st.cur].SkipMsg = Append(@, line)]
    ELSE st

\* An end of stream that flushes what the buffer still holds.
atEOFFlush(st) == CHOOSE o \in Flush(NoMatch, st) : TRUE

\* End of stream: the loop is left and the report returned as it stands.
atEOF(st) == st

\* A failed read that still hands the report built so far to the caller.
returnPartial(e, st) == [report |-> "report", err |-> e]

\* What Parse returns when ReadLine fails with e.
returnOnError(e, st) == [report |-> "nil", err |-> e]

\* What Parse returns after the loop.
returnReport(st) == [report |-> "report", err |-> "nil"]

RECURSIVE countNotPass(_, _)
\* A count of every test that did not pass.
countNotPass(ids, h) ==
    IF ids = <<>> THEN 0
    ELSE (IF h[Head(ids)].Result # 0 THEN 1 ELSE 0) + countNotPass(Tail(ids), h)

RECURSIVE countFail(_, _)
\* The inner loop of Failures over one package's tests.
countFail(ids, h) ==
    IF ids = <<>> THEN 0
    ELSE (IF h[Head(ids)].Result = FAIL THEN 1 ELSE 0) + countFail(Tail(ids), h)

RECURSIVE Failures(_, _)
\* Report.Failures: the nested loops over packages and their tests.
Failures(packages, h) ==
    IF packages = <<>> THEN 0
    ELSE countFail(Head(packages).Tests, h) + Failures(Tail(packages), h)

(***************************************************************************)
(* History of the input.                                                   *)
(***************************************************************************)
ScenInit ==
    [phase |-> "start", p |-> "", t |-> <<"">>, msgs |-> <<>>, kw |-> "",
     secs |-> EmptyLit, texts |-> <<>>, clean |-> TRUE]

ScenOff == [ScenInit EXCEPT !.phase = "off"]

\* The stream read so far, against the shape: records for one (p, t) with t
\* free of '/', then the status line "--- kw: t (secs s)", then lines that
\* match no rule, then one package-result line.  clean: no record line held
\* text matching the status pattern.
ScenStep(sc, line) ==
    IF /\ sc.phase \in {"start", "recs"}
       /\ jsonOk(line)
       /\ Len(jsonInfo(line).Test) = 1
       /\ sc.phase = "recs" => jsonInfo(line).Suite = sc.p /\ jsonInfo(line).Test = sc.t
    THEN [sc EXCEPT !.phase = "recs",
                    !.p = jsonInfo(line).Suite,
                    !.t = jsonInfo(line).Test,
                    !.msgs = Append(@, jsonInfo(line).Msg),
                    !.clean = @ /\ Len(regexStatus(line)) # 4]
    ELSE IF /\ sc.phase = "recs"
            /\ line.shape = "status"
            /\ line.indent = ""
            /\ line.st.unit = "s"
            /\ line.st.kw \in {"PASS", "FAIL", "SKIP"}
            /\ line.st.name = sc.t
    THEN [sc EXCEPT !.phase = "status", !.kw = line.st.kw, !.secs = line.st.secs]
    ELSE IF sc.phase = "status" /\ Rule(line) = "fallback"
    THEN [sc EXCEPT !.texts = Append(@, line)]
    ELSE IF sc.phase = "status" /\ Rule(line) = "result"
    THEN [sc EXCEPT !.phase = "closed"]
    ELSE ScenOff

(***************************************************************************)
(* Actions: one per outcome of ReadLine and branch of the loop body.       *)
(***************************************************************************)
ReadErrors == {"ErrUnexpectedEOF", "ErrClosedPipe"}

Init ==
    /\ pc = "reading"
    /\ heap = <<>>
    /\ suites = EmptyMap
    /\ cur = NilTest
    /\ report = <<>>
    /\ err = "nil"
    /\ ret = [report |-> "nil", err |-> "nil"]
    /\ failures = -1
    /\ nread = 0
    /\ resultFor = {}
    /\ openRecs = {}
    /\ closedRecs = {}
    /\ origin = <<>>
    /\ resolved = {}
    /\ scen = ScenInit
    /\ heap2 = <<>>
    /\ suites2 = EmptyMap
    /\ cur2 = NilTest
    /\ report2 = <<>>

SetSt(o) ==
    /\ heap' = o.heap
    /\ suites' = o.suites
    /\ cur' = o.cur
    /\ report' = o.report

\* ReadLine returned the line with a nil error.
GotLine(line) ==
    /\ pc = "reading"
    /\ nread < MaxLines
    /\ nread' = nread + 1
    /\ err' = "nil"
    /\ scen' = ScenStep(scen, line)
    /\ UNCHANGED <<pc, ret, failures>>

ReadResultLine(line) ==
    /\ Rule(line) = "result"
    /\ GotLine(line)
    /\ resultFor' = resultFor \cup {line}
    /\ closedRecs' = closedRecs \cup openRecs
    /\ openRecs' = {}
    /\ UNCHANGED <<origin, resolved>>
    /\ \E o \in Flush(regexResult(line), St) : SetSt(o)

ReadStatusLine(line) ==
    /\ Rule(line) = "status"
    /\ GotLine(line)
    /\ UNCHANGED <<resultFor, openRecs, closedRecs, origin>>
    /\ \E o \in Status(regexStatus(line), St) :
          /\ SetSt(o)
          /\ resolved' = IF o.cur = NilTest THEN resolved ELSE resolved \cup {o.cur}

ReadRecordLine(line) ==
    /\ Rule(line) = "record"
    /\ GotLine(line)
    /\ openRecs' = openRecs \cup {jsonInfo(line).Suite}
    /\ UNCHANGED <<resultFor, closedRecs, resolved>>
    /\ SetSt(Record(jsonInfo(line), St))
    /\ origin' = IF Len(heap') > Len(heap)
                 THEN Append(origin, jsonInfo(line).Suite) ELSE origin

ReadOtherLine(line) ==
    /\ Rule(line) = "fallback"
    /\ GotLine(line)
    /\ UNCHANGED <<resultFor, openRecs, closedRecs, origin, resolved>>
    /\ SetSt(Fallback(line, St))

\* ReadLine returned io.EOF: break, return report, nil.
ReadEOF ==
    /\ pc = "reading"
    /\ err' = "EOF"
    /\ SetSt(atEOF(St))
    /\ ret' = returnReport(atEOF(St))
    /\ pc' = "done"
    /\ UNCHANGED <<failures, nread, resultFor, openRecs, closedRecs, origin,
                   resolved, scen>>

\* ReadLine returned another error: return nil, err.  Nothing of the call
\* but the returned pair outlives it.
ReadFail ==
    \E e \in ReadErrors :
        /\ pc = "reading"
        /\ err' = e
        /\ ret' = returnOnError(e, St)
        /\ pc' = "done"
        /\ heap' = <<>>
        /\ suites' = EmptyMap
        /\ cur' = NilTest
        /\ report' = <<>>
        /\ nread' = 0
        /\ resultFor' = {}
        /\ openRecs' = {}
        /\ closedRecs' = {}
        /\ origin' = <<>>
        /\ resolved' = {}
        /\ scen' = ScenOff
        /\ UNCHANGED failures

\* The caller asks the returned report for its failures.
CallFailures ==
    /\ pc = "done"
    /\ ret.report = "report"
    /\ failures = -1
    /\ failures' = Failures(report, heap)
    /\ UNCHANGED <<pc, heap, suites, cur, report, err, ret, nread, resultFor,
                   openRecs, closedRecs, origin, resolved, scen>>

\* One call of Parse and its caller; the second call does not run.
OnResultLine == \E line \in Lines : ReadResultLine(line) /\ UNCHANGED twin
OnStatusLine == \E line \in Lines : ReadStatusLine(line) /\ UNCHANGED twin
OnRecordLine == \E line \in Lines : ReadRecordLine(line) /\ UNCHANGED twin
OnOtherLine  == \E line \in Lines : ReadOtherLine(line) /\ UNCHANGED twin
OnEOF        == ReadEOF /\ UNCHANGED twin
OnReadError  == ReadFail /\ UNCHANGED twin
OnFailures   == CallFailures /\ UNCHANGED twin

Next ==
    \/ OnResultLine
    \/ OnStatusLine
    \/ OnRecordLine
    \/ OnOtherLine
    \/ OnEOF
    \/ OnReadError
    \/ OnFailures

Spec == Init /\ [][Next]_vars

(***************************************************************************)
(* Two calls of Parse on one stream: both read the same line at each step, *)
(* each call ranging over its maps in an order of its own.                 *)
(***************************************************************************)
\* The loop body on one line: the outcomes the map orders allow.
Body(line, st) ==
    IF Rule(line) = "result" THEN Flush(regexResult(line), st)
    ELSE IF Rule(line) = "status" THEN Status(regexStatus(line), st)
    ELSE IF Rule(line) = "record" THEN {Record(jsonInfo(line), st)}
    ELSE {Fallback(line, st)}

SetSt2(o) ==
    /\ heap2' = o.heap
    /\ suites2' = o.suites
    /\ cur2' = o.cur
    /\ report2' = o.report

TwinLine(line) == \E o \in Body(line, St2) : SetSt2(o)

TwinResultLine == \E line \in Lines : ReadResultLine(line) /\ TwinLine(line)
TwinStatusLine == \E line \in Lines : ReadStatusLine(line) /\ TwinLine(line)
TwinRecordLine == \E line \in Lines : ReadRecordLine(line) /\ TwinLine(line)
TwinOtherLine  == \E line \in Lines : ReadOtherLine(line) /\ TwinLine(line)
TwinEOF        == ReadEOF /\ SetSt2(atEOF(St2))

TwinNext ==
    \/ TwinResultLine
    \/ TwinStatusLine
    \/ TwinRecordLine
    \/ TwinOtherLine
    \/ TwinEOF

SpecTwin == Init /\ [][TwinNext]_vars

(***************************************************************************)
(* Properties.                                                             *)
(***************************************************************************)
\* Parse has returned a report (end of stream).
Returned == pc = "done" /\ ret.report = "report"

\* The tests of the report, each occurrence once: <<package index, position>>.
Occurrences ==
    UNION { { <<i, j>> : j \in DOMAIN report[i].Tests } : i \in DOMAIN report }

TestAt(x) == heap[report[x[1]].Tests[x[2]]]

RECURSIVE SumOver(_, _)
\* Sum of the current durations of the tests at the positions in S of package i.
SumOver(i, S) ==
    IF S = {} THEN Zero64
    ELSE LET j == CHOOSE k \in S : TRUE
         IN Add64(heap[report[i].Tests[j]].Duration, SumOver(i, S \ {j}))

\* C1: in every state of the parse, at the flush and in the report returned,
\* each Package's Duration is the sum of the Duration values its Tests hold.
C1_DurationIsSum ==
    \A i \in DOMAIN report :
        report[i].Duration = SumOver(i, DOMAIN report[i].Tests)

\* A returned package with two tests, both timed by status lines.
C1_Witness ==
    /\ Returned
    /\ \E i \in DOMAIN report :
          /\ Len(report[i].Tests) = 2
          /\ \A j \in 1 .. 2 : heap[report[i].Tests[j]].Duration # Zero64
          /\ report[i].Duration = <<0, 0, 40000000>>

\* C2: a stream without any package-result line yields a report with no
\* packages, whatever the buffer holds at end of stream.
C2_NoResultLineNoPackages ==
    (Returned /\ resultFor = {}) => Len(report) = 0

\* End of stream with tests still buffered, one of them resolved and
\* holding failure text.
C2_Witness ==
    /\ Returned
    /\ resultFor = {}
    /\ DOMAIN suites # {}
    /\ cur # NilTest
    /\ heap[cur].Failure # <<>>
    /\ Len(report) = 0

\* C3 as claimed: a Package named P is in the report only if some
\* package-result line naming P was read.
C3_OnlyOwnResultLine ==
    Returned =>
        \A i \in DOMAIN report : \E l \in resultFor : l.pkg = report[i].Name

\* C3 amended: a Package named P is in the report only if some
\* package-result line, naming whatever package, was read after a
\* structured record for P.
C3_OnlyAfterAResultLine ==
    Returned =>
        \A i \in DOMAIN report : report[i].Name \in closedRecs

\* Records of two suites, one closed by a result line of another package,
\* the other never closed.
C3_Witness ==
    /\ Returned
    /\ \E i \in DOMAIN report :
          /\ report[i].Name = "pkgA"
          /\ \A l \in resultFor : l.pkg = "pkgC"
    /\ "pkgB" \in openRecs
    /\ "pkgB" \notin closedRecs

\* The seconds a literal writes are a whole number of nanoseconds: every
\* digit after the ninth of the fraction is 0.
WholeNanos(t) == \A i \in DOMAIN t.frac : i > 9 => t.frac[i] = 0

\* The seconds a literal writes, in nanoseconds: <<a, b, c>> stands for
\* a*10^18 + b*10^9 + c.  <<>> when they are not a whole number of
\* nanoseconds, a value no Duration has.
SecondsValue(t) ==
    LET w  == stripZeros(t.whole)
        hi == IF Len(w) > 9 THEN SubSeq(w, 1, Len(w) - 9) ELSE <<>>
        lo == IF Len(w) > 9 THEN SubSeq(w, Len(w) - 8, Len(w)) ELSE w
        f  == IF Len(t.frac) > 9 THEN SubSeq(t.frac, 1, 9) ELSE t.frac
    IN IF WholeNanos(t)
       THEN <<digitsValue(hi), digitsValue(lo), digitsValue(f) * Pow10(9 - Len(f))>>
       ELSE <<>>

\* The literal has at most nine fraction digits and writes fewer than 2^63
\* nanoseconds.
FitsDuration(t) == Len(t.frac) <= 9 /\ Less64(SecondsValue(t), Two63)

\* What the scenario of C4 expects of the report.
ScenExpected ==
    /\ Len(report) = 1
    /\ report[1].Name = scen.p
    /\ report[1].Duration = SecondsValue(scen.secs)
    /\ Len(report[1].Tests) = 1
    /\ LET t == heap[report[1].Tests[1]] IN
          /\ t.Name = scen.t
          /\ t.Result = (CASE scen.kw = "PASS" -> PASS
                           [] scen.kw = "FAIL" -> FAIL
                           [] scen.kw = "SKIP" -> SKIP)
          /\ t.Duration = SecondsValue(scen.secs)
          /\ t.Output = scen.msgs
          /\ t.Failure = (IF scen.kw = "FAIL" THEN scen.texts ELSE <<>>)
          /\ t.SkipMsg = (IF scen.kw = "SKIP" THEN scen.texts ELSE <<>>)

\* C4 as claimed: records for (p, t), the status line of t, free text, one
\* package-result line give exactly the one expected package and test.
C4_Scenario ==
    (Returned /\ scen.phase = "closed") => ScenExpected

\* C4 amended: the same, for a test name that is not empty, seconds written
\* with at most nine fraction digits that are fewer than 2^63 nanoseconds,
\* and record lines that hold no text matching the status-line pattern.
C4_ScenarioRestricted ==
    (/\ Returned
     /\ scen.phase = "closed"
     /\ scen.clean
     /\ scen.t # NoName
     /\ FitsDuration(scen.secs)) => ScenExpected

\* Two records, a SKIP status line, a line of text, a result line: the
\* returned test is skipped and holds the line in its SkipMsg.
C4_Witness ==
    /\ Returned
    /\ scen.phase = "closed"
    /\ scen.clean
    /\ scen.t # NoName
    /\ FitsDuration(scen.secs)
    /\ scen.kw = "SKIP"
    /\ Len(scen.msgs) = 2
    /\ Len(scen.texts) = 1
    /\ Len(report) = 1
    /\ heap[report[1].Tests[1]].SkipMsg = scen.texts

\* C5: a test of the returned report that no status line resolved has
\* Result PASS, Duration zero, and no Failure or SkipMsg lines.
C5_UnresolvedIsPassZero ==
    Returned =>
        \A x \in Occurrences :
            report[x[1]].Tests[x[2]] \notin resolved =>
                /\ TestAt(x).Result = PASS
                /\ TestAt(x).Duration = Zero64
                /\ TestAt(x).Failure = <<>>
                /\ TestAt(x).SkipMsg = <<>>

\* A returned package holding an unresolved test next to a test resolved
\* FAIL that took failure text.
C5_Witness ==
    /\ Returned
    /\ \E x, y \in Occurrences :
          /\ x[1] = y[1]
          /\ report[x[1]].Tests[x[2]] \notin resolved
          /\ report[y[1]].Tests[y[2]] \in resolved
          /\ TestAt(y).Result = FAIL
          /\ TestAt(y).Failure # <<>>

\* What a package holds, the order of its tests left aside.
Content(pkg, h) ==
    [Name |-> pkg.Name, Duration |-> pkg.Duration,
     Tests |-> { h[pkg.Tests[j]] : j \in DOMAIN pkg.Tests }]

\* C6: two calls of Parse on the same stream return reports with the same
\* packages (name, duration) holding the same tests with the same Result,
\* Duration, Output, Failure and SkipMsg.  Stated in a form that also lets
\* the order of the packages differ.
C6_SameContent ==
    Returned =>
        { Content(report[i], heap) : i \in DOMAIN report } =
        { Content(report2[i], heap2) : i \in DOMAIN report2 }

\* C7: Parse returns an error exactly when ReadLine failed with something
\* other than io.EOF; then the error is the one read and the report is nil.
\* While lines are handled nothing is returned, and at end of stream the
\* report is non-nil and the error nil.
C7_ErrorOnlyFromRead ==
    /\ pc = "reading" => (err = "nil" /\ ret = [report |-> "nil", err |-> "nil"])
    /\ pc = "done" =>
          /\ ret.err # "nil" <=> err \in ReadErrors
          /\ err \in ReadErrors => (ret.err = err /\ ret.report = "nil")
          /\ err = "EOF" => (ret.err = "nil" /\ ret.report = "report")
          /\ err \in ReadErrors \cup {"EOF"}

\* A read failure surfaced to the caller.
C7_Witness ==
    /\ pc = "done"
    /\ err = "ErrClosedPipe"
    /\ ret = [report |-> "nil", err |-> "ErrClosedPipe"]

\* C8: Failures() returns the number of test occurrences with Result FAIL
\* over all packages, and leaves the report and its tests as they were.
C8_FailuresCount ==
    [][failures' # failures =>
          /\ failures' = Cardinality({ x \in Occurrences : TestAt(x).Result = FAIL })
          /\ report' = report
          /\ heap' = heap]_vars

\* Two packages with one failed test each, counted.
C8_Witness ==
    /\ failures = 2
    /\ Len(report) = 2
    /\ \A i \in 1 .. 2 : \E j \in DOMAIN report[i].Tests :
          heap[report[i].Tests[j]].Result = FAIL

\* C9: while Parse runs and in the report it returns, a step only ever adds
\* packages at the end of the package list: the packages already there
\* keep their places.
C9_AppendOnly ==
    [][(pc' = "reading" \/ ret'.report = "report") =>
          /\ Len(report') >= Len(report)
          /\ SubSeq(report', 1, Len(report)) = report]_vars

\* Two packages of the same name, so flushed by two package-result lines.
C9_Witness ==
    /\ Returned
    /\ Len(report) = 2
    /\ report[1].Name = report[2].Name
    /\ report[1].Tests # report[2].Tests

\* C10: every Package of the report has an empty CoveragePct, no
\* Benchmarks, and the Suite value of the records that created its tests as
\* its Name.
C10_NothingFromResultLine ==
    \A i \in DOMAIN report :
        /\ report[i].CoveragePct = ""
        /\ report[i].Benchmarks = <<>>
        /\ \A j \in DOMAIN report[i].Tests :
              origin[report[i].Tests[j]] = report[i].Name

\* A package flushed by a result line that names another package and
\* carries a coverage percentage.
C10_Witness ==
    /\ Returned
    /\ \E i \in DOMAIN report : report[i].Name = "pkgA"
    /\ resultFor = {ResultLine("ok", "pkgC", "secs", Lit(<<0>>, <<5>>), "87.5")}

\* The tests a suite of the buffer maps to.
TestsOf(s) == { suites[s][t] : t \in DOMAIN suites[s] }

\* C11: a package-result line, whatever package it names, appends exactly
\* one Package per suite of the buffer, with that suite's name and exactly
\* its tests, each once, and leaves the buffer empty; with an empty buffer
\* it appends nothing.
C11_FlushAll ==
    [][\A line \in Lines : ReadResultLine(line) =>
          LET new == SubSeq(report', Len(report) + 1, Len(report')) IN
          /\ Len(report') = Len(report) + Cardinality(DOMAIN suites)
          /\ SubSeq(report', 1, Len(report)) = report
          /\ \A s \in DOMAIN suites : \E i \in DOMAIN new :
                /\ new[i].Name = s
                /\ Len(new[i].Tests) = Cardinality(TestsOf(s))
                /\ { new[i].Tests[j] : j \in DOMAIN new[i].Tests } = TestsOf(s)
          /\ suites' = EmptyMap]_vars

\* Two suites flushed by one package-result line that names neither.
C11_Witness ==
    /\ pc = "reading"
    /\ Len(report) = 2
    /\ { report[i].Name : i \in DOMAIN report } = {"pkgA", "pkgB"}
    /\ \E i \in DOMAIN report : Len(report[i].Tests) = 2
    /\ \A l \in resultFor : l.pkg = "pkgC"
    /\ Cardinality(resultFor) = 1
    /\ suites = EmptyMap

\* The last '/'-separated segment of a name.
LastSegment(n) == <<n[Len(n)]>>

\* The tests of the buffer stored under a name.
Named(n) ==
    { id \in UNION { TestsOf(s) : s \in DOMAIN suites } : heap[id].Name = n }

KeywordResult(kw) ==
    CASE kw = "PASS" -> PASS [] kw = "FAIL" -> FAIL [] kw = "SKIP" -> SKIP

\* C12 as claimed: a status line resolves a test exactly when a suite of the
\* buffer holds a test stored under the last '/'-separated segment of the
\* line's name; then one such test gets the line's Result and the seconds of
\* the line as its Duration and becomes current, and every other test, the
\* buffer and the report stay as they were.  Without such a test no test
\* changes.
C12_StatusResolves ==
    [][\A line \in Lines : ReadStatusLine(line) =>
          LET st == statusTextOf(line)[1]
              c  == Named(LastSegment(st.name))
          IN /\ suites' = suites
             /\ report' = report
             /\ c = {} => heap' = heap
             /\ c # {} =>
                   \E id \in c :
                      /\ cur' = id
                      /\ heap' = [heap EXCEPT ![id].Result = KeywordResult(st.kw),
                                              ![id].Duration = SecondsValue(st.secs)]]_vars

\* The Duration the amended C12 expects of a status line's seconds: for at
\* most nine fraction digits their value in nanoseconds, zero when that is
\* 2^63 or more; for more digits what parseSeconds returns.
SecondsDuration(t) ==
    IF Len(t.frac) > 9 THEN parseSeconds(t)
    ELSE IF FitsDuration(t) THEN SecondsValue(t)
    ELSE Zero64

\* C12 amended: the same with the name reduced as path.Base reduces it (the
\* last segment once the slashes at the end of the name are dropped), and
\* with the Duration parseSeconds returns for the seconds of the line: their
\* value in nanoseconds when written with at most nine fraction digits, and
\* zero when that value is 2^63 or more.
C12_StatusResolvesBase ==
    [][\A line \in Lines : ReadStatusLine(line) =>
          LET st == statusTextOf(line)[1]
              c  == Named(pathBase(st.name))
          IN /\ suites' = suites
             /\ report' = report
             /\ c = {} => heap' = heap
             /\ c # {} =>
                   \E id \in c :
                      /\ cur' = id
                      /\ heap' = [heap EXCEPT
                                    ![id].Result = KeywordResult(st.kw),
                                    ![id].Duration = SecondsDuration(st.secs)]]_vars

\* TestFoo was resolved FAIL and took a line of text, then "--- SKIP: TestFoo/
\* (0.03s)" resolved it again: the last line's result and duration stand,
\* next to a test no status line touched.
C12_Witness ==
    /\ cur # NilTest
    /\ heap[cur].Name = TestFoo
    /\ heap[cur].Result = SKIP
    /\ heap[cur].Duration = <<0, 0, 30000000>>
    /\ heap[cur].Failure # <<>>
    /\ \E id \in DOMAIN heap : id # cur /\ id \notin resolved
    /\ Cardinality(DOMAIN suites) = 2

\* C13: a status line whose reduced name is stored in no suite creates no
\* test: it clears cur and leaves the buffer, every test and the report as
\* they were.  A test only comes into being when a structured record is
\* handled.
C13_MissCreatesNothing ==
    [][/\ \A line \in Lines :
             (ReadStatusLine(line) /\ Named(pathBase(statusTextOf(line)[1].name)) = {})
                => (cur' = NilTest /\ heap' = heap /\ suites' = suites /\ report' = report)
       /\ Len(heap') > Len(heap) => \E line \in Lines : ReadRecordLine(line)]_vars

\* A status line found no test after an earlier one had: cur is nil again
\* while the buffer still holds tests.
C13_Witness ==
    /\ pc = "reading"
    /\ cur = NilTest
    /\ resolved # {}
    /\ DOMAIN suites # {}

\* C14: a line that matches no rule is appended as it is to the end of the
\* current test's Failure when its Result is FAIL, of its SkipMsg when it is
\* SKIP, and changes nothing when there is no current test or it passed;
\* cur, the buffer, the package list and every other field stay as they
\* were.
C14_FallbackRouting ==
    [][\A line \in Lines : ReadOtherLine(line) =>
          /\ cur' = cur
          /\ suites' = suites
          /\ report' = report
          /\ heap' = IF cur # NilTest /\ heap[cur].Result = FAIL
                     THEN [heap EXCEPT ![cur].Failure = heap[cur].Failure \o <<line>>]
                     ELSE IF cur # NilTest /\ heap[cur].Result = SKIP
                     THEN [heap EXCEPT ![cur].SkipMsg = heap[cur].SkipMsg \o <<line>>]
                     ELSE heap]_vars

\* A skipped test that took two lines, the second an object that does not
\* decode.
C14_Witness ==
    /\ cur # NilTest
    /\ heap[cur].Result = SKIP
    /\ Len(heap[cur].SkipMsg) = 2
    /\ heap[cur].SkipMsg[2] = JsonLine(JStr("pkgA"), JNum, JAbsent)
    /\ heap[cur].Failure = <<>>

\* C15: only a status line changes cur: it sets cur to the test it finds
\* and clears it when it finds none; package-result lines, structured
\* records and lines that match no rule leave cur as it was.  So a test no
\* status line has resolved never takes failure or skip text.
C15_CurOnlyByStatus ==
    [][/\ (pc' = "reading" /\ cur' # cur) => \E line \in Lines : ReadStatusLine(line)
       /\ \A line \in Lines :
             ReadStatusLine(line) =>
                LET c == Named(pathBase(statusTextOf(line)[1].name))
                IN IF c = {} THEN cur' = NilTest ELSE cur' \in c
       /\ \A id \in DOMAIN heap' :
             id \notin resolved' =>
                (heap'[id].Failure = <<>> /\ heap'[id].SkipMsg = <<>>)]_vars

\* cur still names a failed test of an earlier flush; the text read after a
\* record created a second test went to the first, not to the new one.
C15_Witness ==
    /\ Len(heap) = 2
    /\ cur = 1
    /\ Len(report) = 1
    /\ 2 \in UNION { TestsOf(s) : s \in DOMAIN suites }
    /\ heap[1].Failure # <<>>
    /\ heap[2].Failure = <<>>
    /\ 2 \notin resolved

(***************************************************************************)
(* The effects of each rule, as seen on one step.                          *)
(***************************************************************************)
\* One pass of the loop body over the line.
Step(line) ==
    \/ ReadResultLine(line)
    \/ ReadStatusLine(line)
    \/ ReadRecordLine(line)
    \/ ReadOtherLine(line)

\* No package is appended to the report.
NoFlushEffect == report' = report

\* No test is resolved and the current test stays.
NoStatusEffect ==
    /\ cur' = cur
    /\ \A id \in DOMAIN heap :
          /\ heap'[id].Result = heap[id].Result
          /\ heap'[id].Duration = heap[id].Duration

\* No Test is created and no Msg is appended to an Output.
NoRecordEffect ==
    /\ Len(heap') = Len(heap)
    /\ \A id \in DOMAIN heap : heap'[id].Output = heap[id].Output

\* No line is appended to a Failure or a SkipMsg.
NoFallbackEffect ==
    \A id \in DOMAIN heap :
        /\ heap'[id].Failure = heap[id].Failure
        /\ heap'[id].SkipMsg = heap[id].SkipMsg

\* C16: each line is handled by the earliest rule it matches, in the order
\* package-result, status, structured record, fallback.  A valid structured
\* record whose text holds a status pattern is handled as a status line only:
\* no Test is created and nothing is appended to an Output, a Failure or a
\* SkipMsg.  And the effect of a rule occurs only on a line whose earliest
\* matching rule it is, with the effects of the other rules absent.
C16_FirstMatchWins ==
    [][/\ \A line \in { l \in Lines : Len(regexStatus(l)) = 4 /\ jsonOk(l) } :
             Step(line) => /\ NoFlushEffect /\ NoRecordEffect /\ NoFallbackEffect
                           /\ suites' = suites
       /\ pc' = "reading" =>
             /\ ~NoFlushEffect =>
                   \E line \in Lines :
                       /\ Len(regexResult(line)) = 6
                       /\ ReadResultLine(line)
                       /\ NoStatusEffect /\ NoRecordEffect /\ NoFallbackEffect
             /\ ~NoStatusEffect =>
                   \E line \in Lines :
                       /\ Len(regexResult(line)) # 6
                       /\ Len(regexStatus(line)) = 4
                       /\ ReadStatusLine(line)
                       /\ NoFlushEffect /\ NoRecordEffect /\ NoFallbackEffect
             /\ ~NoRecordEffect =>
                   \E line \in Lines :
                       /\ Len(regexResult(line)) # 6
                       /\ Len(regexStatus(line)) # 4
                       /\ jsonOk(line)
                       /\ ReadRecordLine(line)
                       /\ NoFlushEffect /\ NoStatusEffect /\ NoFallbackEffect
             /\ ~NoFallbackEffect =>
                   \E line \in Lines :
                       /\ Len(regexResult(line)) # 6
                       /\ Len(regexStatus(line)) # 4
                       /\ ~jsonOk(line)
                       /\ ReadOtherLine(line)
                       /\ NoFlushEffect /\ NoStatusEffect /\ NoRecordEffect]_vars

\* A structured record of pkgA/TestFoo was read, then a line that is both a
\* valid structured record of pkgA/TestFoo and a match of the status pattern:
\* the test is resolved FAIL and its Output holds the first Msg only.
C16_Witness ==
    /\ pc = "reading"
    /\ scen.phase = "recs"
    /\ ~scen.clean
    /\ Len(scen.msgs) = 2
    /\ cur # NilTest
    /\ heap[cur].Result = FAIL
    /\ Len(heap[cur].Output) = 1
    /\ Len(heap) = 1

(***************************************************************************)
(* Structured records.                                                     *)
(***************************************************************************)
\* What the claim says a structured record (Suite, Test, Msg) does.
RecordEffect(info) ==
    /\ report' = report
    /\ IF info.Suite \in DOMAIN suites /\ info.Test \in DOMAIN suites[info.Suite]
       THEN /\ suites' = suites
            /\ heap' = [heap EXCEPT ![suites[info.Suite][info.Test]].Output =
                                        heap[suites[info.Suite][info.Test]].Output
                                           \o <<info.Msg>>]
       ELSE /\ heap' = heap \o <<[Name |-> info.Test, Result |-> PASS,
                                   Duration |-> Zero64, Output |-> <<info.Msg>>,
                                   Failure |-> <<>>, SkipMsg |-> <<>>]>>
            /\ DOMAIN suites' = DOMAIN suites \cup {info.Suite}
            /\ \A s \in DOMAIN suites \ {info.Suite} : suites'[s] = suites[s]
            /\ DOMAIN suites'[info.Suite] =
                  (IF info.Suite \in DOMAIN suites
                   THEN DOMAIN suites[info.Suite] ELSE {}) \cup {info.Test}
            /\ suites'[info.Suite][info.Test] = Len(heap) + 1
            /\ \A t \in DOMAIN suites'[info.Suite] \ {info.Test} :
                  suites'[info.Suite][t] = suites[info.Suite][t]

\* C17 as stated: every line that decodes as a structured record (Suite, Test,
\* Msg) creates the suite mapping and the Test when absent (Result PASS, zero
\* Duration, empty Failure and SkipMsg), appends Msg to the end of that Test's
\* Output, changes no other Test and leaves the report alone.
C17_RecordAppends ==
    [][\A line \in Lines :
          (jsonOk(line) /\ Step(line)) => RecordEffect(jsonInfo(line))]_vars

\* C17, amended: the same for every structured record whose text holds no
\* match of the status pattern; and an Output is changed by such records
\* only, so that at flush, which changes no Output, a Test's Output is the
\* Msg values of those records for its (Suite, Test) pair since the previous
\* flush, in stream order.
C17_RecordAppendsNoStatusText ==
    [][/\ \A line \in Lines :
             (jsonOk(line) /\ Len(regexStatus(line)) # 4 /\ Step(line))
                => RecordEffect(jsonInfo(line))
       /\ (pc' = "reading" /\ ~NoRecordEffect) =>
             /\ report' = report
             /\ \E line \in Lines :
                   /\ jsonOk(line)
                   /\ Len(regexStatus(line)) # 4
                   /\ ReadRecordLine(line)]_vars

\* Three records were read, pkgA/TestFoo "hello\n", pkgA/TestBar without Msg,
\* pkgA/TestFoo "m2": two tests in one suite, the first with both Msg values
\* in stream order.
C17_Witness ==
    /\ pc = "reading"
    /\ nread = 3
    /\ Len(heap) = 2
    /\ report = <<>>
    /\ cur = NilTest
    /\ DOMAIN suites = {"pkgA"}
    /\ DOMAIN suites["pkgA"] = {TestFoo, TestBar}
    /\ heap[suites["pkgA"][TestFoo]] =
          [Name |-> TestFoo, Result |-> PASS, Duration |-> Zero64,
           Output |-> <<PlainMsg("hello\n"), PlainMsg("m2")>>,
           Failure |-> <<>>, SkipMsg |-> <<>>]
    /\ heap[suites["pkgA"][TestBar]].Output = <<PlainMsg("")>>

(***************************************************************************)
(* Bare summary tokens.                                                    *)
(***************************************************************************)
\* C18: a line that is only the summary token PASS, FAIL or SKIP is not acted
\* on: processing it leaves suites, every Test (Failure and SkipMsg
\* included), the current test and the report unchanged.
C18_SummaryTokenIgnored ==
    [][\A line \in { l \in Lines : Len(regexSummary(l)) = 2 } :
          Step(line) => UNCHANGED <<heap, suites, cur, report>>]_vars

(***************************************************************************)
(* Tests already in the report.                                            *)
(***************************************************************************)
\* The tests of the packages of the report.
Flushed == UNION { { report[i].Tests[j] : j \in DOMAIN report[i].Tests } :
                   i \in DOMAIN report }

\* C19: a Test is final once its package has been flushed: no later line
\* changes a field of a Test of a Package of the report, nor a Package of the
\* report, so a Package is returned as it was at the moment of its flush.
C19_FinalOnceFlushed ==
    [][(pc' = "reading" \/ ret'.report = "report") =>
          /\ Len(report') >= Len(report)
          /\ SubSeq(report', 1, Len(report)) = report
          /\ \A id \in Flushed : heap'[id] = heap[id]]_vars

(***************************************************************************)
(* Result against the Failure and SkipMsg lists.                           *)
(***************************************************************************)
\* The lists of a test agree with its Result.
Agrees(t) ==
    /\ t.Failure # <<>> => t.Result = FAIL
    /\ t.SkipMsg # <<>> => t.Result = SKIP

\* C20 as stated: in every reachable state a Test with a non-empty Failure
\* has Result FAIL and a Test with a non-empty SkipMsg has Result SKIP.
C20_ListsAgreeWithResult == \A id \in DOMAIN heap : Agrees(heap[id])

\* C20, amended: a line is added to the Failure of a Test only while its
\* Result is FAIL and to its SkipMsg only while its Result is SKIP, so the
\* lists agree with the Result for as long as no status line resolves the
\* Test to another Result; such a line changes the Result and keeps both
\* lists.
C20_ListsAgreeUntilResolvedAgain ==
    [][pc' = "reading" =>
          \A id \in DOMAIN heap :
             /\ heap'[id].Failure # heap[id].Failure =>
                   /\ heap[id].Result = FAIL /\ heap'[id].Result = FAIL
                   /\ Len(heap'[id].Failure) = Len(heap[id].Failure) + 1
                   /\ heap'[id].SkipMsg = heap[id].SkipMsg
             /\ heap'[id].SkipMsg # heap[id].SkipMsg =>
                   /\ heap[id].Result = SKIP /\ heap'[id].Result = SKIP
                   /\ Len(heap'[id].SkipMsg) = Len(heap[id].SkipMsg) + 1
                   /\ heap'[id].Failure = heap[id].Failure
             /\ (Agrees(heap[id]) /\ heap'[id].Result = heap[id].Result)
                   => Agrees(heap'[id])
             /\ heap'[id].Result # heap[id].Result =>
                   /\ \E line \in Lines : ReadStatusLine(line)
                   /\ heap'[id].Failure = heap[id].Failure
                   /\ heap'[id].SkipMsg = heap[id].SkipMsg]_vars

\* A test was resolved FAIL and took a line into its Failure, then was
\* resolved SKIP and took a line into its SkipMsg.
C20_Witness ==
    \E id \in DOMAIN heap :
        /\ heap[id].Result = SKIP
        /\ Len(heap[id].Failure) = 1
        /\ Len(heap[id].SkipMsg) = 1

====
